---- MODULE Spec2Model ----
(***************************************************************************)
(* Model of the AKShare sidecar service (OpenAlice/sidecar/app.py): a      *)
(* process-wide TTL cache and the Flask request handlers around it.        *)
(*                                                                         *)
(* Strings are modelled as sequences of one-character strings, so that     *)
(* splitting, stripping, integer parsing and cache-key formatting are      *)
(* computed the way the code computes them.  Time is in whole seconds.     *)
(* Handlers run on request threads; the points where another thread can    *)
(* run are the shared-state accesses: _get_cached, the upstream call and   *)
(* _set_cache.                                                             *)
(***************************************************************************)
EXTENDS Integers, Sequences, FiniteSets, TLC

\* ------------------------------------------------------------------ bounds
NumThreads == 2
MaxReq == 3
MaxTime == 60
MaxSeries == 3

\* -------------------------------------------------------- program constants
CACHE_TTL == 60
CountDefault == 60
HotN == 20
NewsN == 30

\* ------------------------------------------------------------------ strings
SP == " "
COMMA == ","
US == "_"

A_SPOT == <<"a", "_", "s", "p", "o", "t">>
HK_SPOT == <<"h", "k", "_", "s", "p", "o", "t">>
NEWS_MARKET == <<"n", "e", "w", "s", "_", "m", "a", "r", "k", "e", "t">>
A_KLINE_PREFIX == <<"a", "_", "k", "l", "i", "n", "e", "_">>
HK_KLINE_PREFIX == <<"h", "k", "_", "k", "l", "i", "n", "e", "_">>
DAILY == <<"d", "a", "i", "l", "y">>

\* str.strip(): drop leading and trailing whitespace
RECURSIVE LStrip(_)
LStrip(s) == IF s # <<>> /\ Head(s) = SP THEN LStrip(Tail(s)) ELSE s

RECURSIVE RStrip(_)
RStrip(s) ==
    IF s # <<>> /\ s[Len(s)] = SP THEN RStrip(SubSeq(s, 1, Len(s) - 1)) ELSE s

Strip(s) == RStrip(LStrip(s))

\* str.split(","): the pieces between commas; "" splits to [""]
RECURSIVE SplitFrom(_, _, _)
SplitFrom(s, i, cur) ==
    IF i > Len(s) THEN <<cur>>
    ELSE IF s[i] = COMMA THEN <<cur>> \o SplitFrom(s, i + 1, <<>>)
    ELSE SplitFrom(s, i + 1, Append(cur, s[i]))

Split(s) == SplitFrom(s, 1, <<>>)

\* [s.strip() for s in symbols_param.split(",") if s.strip()]
RECURSIVE StripNonEmpty(_)
StripNonEmpty(parts) ==
    IF parts = <<>> THEN <<>>
    ELSE IF Strip(Head(parts)) # <<>>
         THEN <<Strip(Head(parts))>> \o StripNonEmpty(Tail(parts))
         ELSE StripNonEmpty(Tail(parts))

ParseSymbols(symbols_param) == StripNonEmpty(Split(symbols_param))

Digits == {"0", "1", "2", "3", "4", "5", "6", "7", "8", "9"}

DigitVal(c) ==
    CASE c = "0" -> 0 [] c = "1" -> 1 [] c = "2" -> 2 [] c = "3" -> 3
      [] c = "4" -> 4 [] c = "5" -> 5 [] c = "6" -> 6 [] c = "7" -> 7
      [] c = "8" -> 8 [] c = "9" -> 9

RECURSIVE DigitsVal(_, _)
DigitsVal(s, acc) ==
    IF s = <<>> THEN acc ELSE DigitsVal(Tail(s), 10 * acc + DigitVal(Head(s)))

AllDigits(s) == s # <<>> /\ \A i \in 1..Len(s) : s[i] \in Digits

\* int(text): surrounding whitespace, an optional sign, then decimal digits;
\* anything else raises ValueError (ok = FALSE)
IntOfStr(text) ==
    LET s == Strip(text)
        signed == s # <<>> /\ Head(s) \in {"-", "+"}
        body == IF signed THEN Tail(s) ELSE s
    IN  IF AllDigits(body)
        THEN [ok |-> TRUE,
              val |-> IF signed /\ Head(s) = "-"
                      THEN 0 - DigitsVal(body, 0) ELSE DigitsVal(body, 0)]
        ELSE [ok |-> FALSE, val |-> 0]

\* ------------------------------------------------------------------ values
\* A payload is a pandas DataFrame ("df": its column names and its rows), a
\* list of dicts ("list": the dicts' keys and the dicts), or Python's None.
NoneVal == [kind |-> "None", cols |-> {}, rows |-> <<>>]
DataFrame(cols, rows) == [kind |-> "df", cols |-> cols, rows |-> rows]
Records(cols, rows) == [kind |-> "list", cols |-> cols, rows |-> rows]

\* A numeric cell is <<n>>; NaN (pandas' missing number) is <<>>.
NaN == <<>>
Num(n) == <<n>>
IsNaN(v) == v = NaN
\* IEEE comparison: anything compared with NaN is false
Gt(a, b) == ~IsNaN(a) /\ ~IsNaN(b) /\ a[1] > b[1]

\* ------------------------------------------------------------------- cache
\* _cache: key -> (timestamp, data); a dict, here a function on the keys present
EmptyCache == <<>>

\* _get_cached with the expiry test inverted (> for <)
GetCached_Gt(c, key, t) ==
    IF key \in DOMAIN c
    THEN IF t - c[key].ts > CACHE_TTL THEN c[key].data ELSE NoneVal
    ELSE NoneVal

\* _get_cached with the expiry test off by one (<= for <)
GetCached_Le(c, key, t) ==
    IF key \in DOMAIN c
    THEN IF t - c[key].ts <= CACHE_TTL THEN c[key].data ELSE NoneVal
    ELSE NoneVal

\* def _get_cached(key)
GetCached(c, key, t) ==
    IF key \in DOMAIN c
    THEN IF t - c[key].ts < CACHE_TTL THEN c[key].data ELSE NoneVal
    ELSE NoneVal

\* _set_cache that leaves an existing entry alone (the first write wins)
SetCache_KeepFirst(c, key, data, t) ==
    [k \in DOMAIN c \cup {key} |->
        IF k \in DOMAIN c THEN c[k] ELSE [ts |-> t, data |-> data]]

\* _set_cache that replaces the value of an existing entry but not its timestamp
SetCache_KeepTs(c, key, data, t) ==
    [k \in DOMAIN c \cup {key} |->
        IF k # key THEN c[k]
        ELSE [ts |-> IF k \in DOMAIN c THEN c[k].ts ELSE t, data |-> data]]

\* _set_cache that also drops the other entries that have expired
SetCache_Purge(c, key, data, t) ==
    [k \in {j \in DOMAIN c : t - c[j].ts < CACHE_TTL} \cup {key} |->
        IF k = key THEN [ts |-> t, data |-> data] ELSE c[k]]

\* def _set_cache(key, data)
SetCache(c, key, data, t) ==
    [k \in DOMAIN c \cup {key} |->
        IF k = key THEN [ts |-> t, data |-> data] ELSE c[k]]

\* --------------------------------------------------------------- field maps
\* source column names, transliterated; in dict order
_A_FIELD_MAP ==
    << <<"daima", "symbol">>, <<"mingcheng", "name">>, <<"zuixinjia", "price">>,
       <<"zhangdiee", "change">>, <<"zhangdiefu", "changePercent">>,
       <<"chengjiaoliang", "volume">>, <<"chengjiaoe", "amount">>,
       <<"zuigao", "high">>, <<"zuidi", "low">>, <<"jinkai", "open">>,
       <<"zuoshou", "prevClose">> >>
_HK_FIELD_MAP == _A_FIELD_MAP

Keys(map) == {map[i][1] : i \in 1..Len(map)}
Values(map) == {map[i][2] : i \in 1..Len(map)}

\* the column names after df.rename(columns=map)
Renamed(cols, map) ==
    {IF \E i \in 1..Len(map) : map[i][1] = c
     THEN (CHOOSE v \in Values(map) : \E i \in 1..Len(map) : map[i] = <<c, v>>)
     ELSE c : c \in cols}

\* df.rename(columns=map)[list(map.values())] then _df_to_records: KeyError
\* when a mapped column is missing.  A snapshot row carries the cells of the
\* code and percent-change columns; the nine other cells are not modelled.
RenameSelect(df, map) ==
    IF Values(map) \subseteq Renamed(df.cols, map)
    THEN [ok |-> TRUE,
          body |-> [i \in 1..Len(df.rows) |->
                      [symbol |-> df.rows[i].code,
                       changePercent |-> df.rows[i].chg]]]
    ELSE [ok |-> FALSE, body |-> <<>>]

Raise == [ok |-> FALSE, body |-> <<>>]

SeqToSet(s) == {s[i] : i \in 1..Len(s)}

\* the quote shaping with the isin filter left out
QuoteShape_NoFilter(df, symbols, map) ==
    IF df.kind # "df" \/ "daima" \notin df.cols THEN Raise
    ELSE RenameSelect(df, map)

\* df[df["daima"].isin(symbols)] ; rename ; records
QuoteShape(df, symbols, map) ==
    IF df.kind # "df" \/ "daima" \notin df.cols THEN Raise
    ELSE RenameSelect(
            DataFrame(df.cols,
                      SelectSeq(df.rows, LAMBDA r : r.code \in SeqToSet(symbols))),
            map)

\* Descending sort on percent change, NaN rows last.  pandas' default sort is
\* not stable: rows with equal keys come out in snapshot order (tie = "keep")
\* or reversed (tie = "flip").
RECURSIVE InsertDesc(_, _, _)
InsertDesc(r, sorted, tie) ==
    IF sorted = <<>> THEN <<r>>
    ELSE IF Gt(r.chg, Head(sorted).chg)
            \/ (tie = "flip" /\ r.chg = Head(sorted).chg)
         THEN <<r>> \o sorted
         ELSE <<Head(sorted)>> \o InsertDesc(r, Tail(sorted), tie)

RECURSIVE SortDesc(_, _, _)
SortDesc(rows, acc, tie) ==
    IF rows = <<>> THEN acc
    ELSE SortDesc(Tail(rows), InsertDesc(Head(rows), acc, tie), tie)

\* the sort with ascending=False left out: ascending order
Reverse(q) == [i \in 1..Len(q) |-> q[Len(q) + 1 - i]]
SortValuesDesc_Asc(rows, tie) ==
    Reverse(SortDesc(SelectSeq(rows, LAMBDA r : ~IsNaN(r.chg)), <<>>, tie))
      \o SelectSeq(rows, LAMBDA r : IsNaN(r.chg))

SortValuesDesc(rows, tie) ==
    SortDesc(SelectSeq(rows, LAMBDA r : ~IsNaN(r.chg)), <<>>, tie)
      \o SelectSeq(rows, LAMBDA r : IsNaN(r.chg))

\* df.head(n)
HeadN(rows, n) == SubSeq(rows, 1, IF Len(rows) < n THEN Len(rows) ELSE n)

\* df.sort_values("zhangdiefu", ascending=False).head(20) ; rename ; records
HotShape(df, map, tie) ==
    IF df.kind # "df" \/ "zhangdiefu" \notin df.cols THEN Raise
    ELSE RenameSelect(DataFrame(df.cols, HeadN(SortValuesDesc(df.rows, tie), HotN)),
                      map)

\* ------------------------------------------------------------------- kline
KlineRename ==
    << <<"riqi", "date">>, <<"kaipan", "open">>, <<"shoupan", "close">>,
       <<"zuigao", "high">>, <<"zuidi", "low">>, <<"chengjiaoliang", "volume">> >>
KlineCols == {"date", "open", "close", "high", "low", "volume"}

\* str(date): the text of a date cell (a day number here)
DateStr(d) == [text |-> d]

\* rename, keep the known columns that are present, stringify the date column
\* (KeyError when there is none), _df_to_records.  A history row carries its
\* date cell; the other cells are not modelled.
KlineTransform(df) ==
    LET cols == Renamed(df.cols, KlineRename) \cap KlineCols
    IN  IF df.kind # "df" \/ "date" \notin cols THEN [ok |-> FALSE, data |-> NoneVal]
        ELSE [ok |-> TRUE,
              data |-> Records(cols,
                         [i \in 1..Len(df.rows) |-> [date |-> DateStr(df.rows[i].date)]])]

\* the slice taken from the front: lst[:count] for count > 0
Tail_Front(lst, count) ==
    SubSeq(lst, 1, IF count > Len(lst) THEN Len(lst) ELSE IF count < 0 THEN 0 ELSE count)

\* lst[-count:], Python slice semantics: a start of -count counts from the
\* end when count > 0; -0 is 0; a positive start (count < 0) counts from the
\* front; starts outside the list are clamped
Tail_(lst, count) ==
    LET n == Len(lst)
        start == IF count > 0 THEN (IF n - count < 0 THEN 0 ELSE n - count)
                 ELSE (IF 0 - count > n THEN n ELSE 0 - count)
    IN  SubSeq(lst, start + 1, n)

\* f"a_kline_{symbol}_{period}" / f"hk_kline_{symbol}_{period}"
KlineKey(prefix, symbol, period) == prefix \o symbol \o <<US>> \o period

\* -------------------------------------------------------------------- news
NewsRename ==
    << <<"xinwenbiaoti", "title">>, <<"fabushijian", "time">>,
       <<"xinwenneirong", "content">>, <<"xinwenlianjie", "url">> >>
NewsCols == {"title", "time", "content", "url"}

\* the news transform without df.head(30)
NewsTransform_NoHead(df) ==
    IF df.kind # "df" THEN [ok |-> FALSE, data |-> NoneVal]
    ELSE [ok |-> TRUE,
          data |-> Records(Renamed(df.cols, NewsRename) \cap NewsCols, df.rows)]

\* df.head(30) ; rename ; keep the known columns present ; records
NewsTransform(df) ==
    IF df.kind # "df" THEN [ok |-> FALSE, data |-> NoneVal]
    ELSE [ok |-> TRUE,
          data |-> Records(Renamed(df.cols, NewsRename) \cap NewsCols,
                           HeadN(df.rows, NewsN))]

\* ---------------------------------------------------------------- upstream
\* What the data provider can hand back.  Its tables change with time: the
\* variant v tells the market data of one instant from that of another.
VariantAt(t) == (t % 2) + 1

Codes == << <<"6">>, <<"7">>, <<"8">> >>
SpotCols == Keys(_A_FIELD_MAP)

SnapCode(i, v) == Codes[((i + v) % Len(Codes)) + 1]
SnapChg(i, v) == LET x == (i * v) % 5 IN IF x = 4 THEN NaN ELSE Num(x - 1)

\* a full-market table of n rows; more rows than codes repeats a code, as a
\* paged upstream listing can
Snapshot(n, v) ==
    DataFrame(SpotCols, [i \in 1..n |-> [code |-> SnapCode(i, v), chg |-> SnapChg(i, v)]])
\* a table that lacks the percent-change column
SnapshotNoChg(n, v) ==
    DataFrame(SpotCols \ {"zhangdiefu"},
              [i \in 1..n |-> [code |-> SnapCode(i, v), chg |-> NaN]])

KlineSrcCols == Keys(KlineRename) \cup {"zhenfu"}
History(n, v) == DataFrame(KlineSrcCols, [i \in 1..n |-> [date |-> 10 * v + i]])
\* the provider's answer for an unknown symbol: a table with no columns
EmptyFrame == DataFrame({}, <<>>)

NewsSrcCols == Keys(NewsRename) \cup {"guanjianci"}
News(n, v) == DataFrame(NewsSrcCols, [i \in 1..n |-> [title |-> 10 * v + i]])

Raised == [ok |-> FALSE, df |-> NoneVal]
Returned(df) == [ok |-> TRUE, df |-> df]

\* ---------------------------------------------------------------- requests
Endpoints == {"health", "a_quote", "a_kline", "a_hot",
              "hk_quote", "hk_kline", "hk_hot", "news"}
IsQuote(ep) == ep \in {"a_quote", "hk_quote"}
IsKline(ep) == ep \in {"a_kline", "hk_kline"}
IsHot(ep) == ep \in {"a_hot", "hk_hot"}
IsSpot(ep) == IsQuote(ep) \/ IsHot(ep)
IsA(ep) == ep \in {"a_quote", "a_kline", "a_hot"}

NoArgs == <<>>
Request(ep, args) == [ep |-> ep, args |-> args]
\* request.args.get(name, default)
ArgGet(args, name, default) == IF name \in DOMAIN args THEN args[name] ELSE default

FieldMapOf(ep) == IF IsA(ep) THEN _A_FIELD_MAP ELSE _HK_FIELD_MAP
SpotKey(ep) == IF IsA(ep) THEN A_SPOT ELSE HK_SPOT
KlinePrefix(ep) == IF ep = "a_kline" THEN A_KLINE_PREFIX ELSE HK_KLINE_PREFIX

\* count = int(request.args.get("count", 60))
CountOf(args) ==
    IF "count" \in DOMAIN args THEN IntOfStr(args["count"])
    ELSE [ok |-> TRUE, val |-> CountDefault]

\* the cache key a request looks up (of a request that gets that far)
CacheKey(r) ==
    IF IsSpot(r.ep) THEN SpotKey(r.ep)
    ELSE IF IsKline(r.ep)
         THEN KlineKey(KlinePrefix(r.ep), ArgGet(r.args, "symbol", <<>>),
                       ArgGet(r.args, "period", DAILY))
         ELSE NEWS_MARKET

\* -------------------------------------------------------------------- state
VARIABLES
    cache,    \* _cache
    now,      \* time.time()
    pc,       \* per thread: where its handler stands
    req,      \* per thread: the request being handled
    loc,      \* per thread: the handler's locals
    resp,     \* per thread: the response (status, body)
    obs,      \* per thread: what the current request has done to cache and upstream
    writes,   \* every _set_cache so far, in order
    nreq      \* requests accepted so far

vars == <<cache, now, pc, req, loc, resp, obs, writes, nreq>>

Threads == 1..NumThreads

NoReq == Request("none", NoArgs)
NoLoc == [key |-> <<>>, count |-> 0, symbols |-> <<>>, df |-> NoneVal]
NoResp == [status |-> 0, body |-> <<>>]
\* gets, sets, calls: how often the request has called _get_cached, _set_cache
\* and the upstream; got: what _get_cached returned, at time lkT, after
\* lkLen writes; src: what the upstream call returned, made at time callT;
\* wr: which write (index in writes) the request's _set_cache was
NoObs == [gets |-> 0, sets |-> 0, calls |-> 0, hit |-> FALSE,
          lkT |-> 0, lkLen |-> 0, got |-> NoneVal,
          callT |-> 0, src |-> NoneVal, wr |-> 0]

Response(status, body) == [status |-> status, body |-> body]
ErrorBody == <<"error">>
OkBody == <<"status:ok">>

Init ==
    /\ cache = EmptyCache
    /\ now = 0
    /\ pc = [t \in Threads |-> "idle"]
    /\ req = [t \in Threads |-> NoReq]
    /\ loc = [t \in Threads |-> NoLoc]
    /\ resp = [t \in Threads |-> NoResp]
    /\ obs = [t \in Threads |-> NoObs]
    /\ writes = <<>>
    /\ nreq = 0

\* the payload (cached or just stored) shaped into the response
Shaped(r, l, tie) ==
    IF IsQuote(r.ep) THEN QuoteShape(l.df, l.symbols, FieldMapOf(r.ep))
    ELSE IF IsHot(r.ep) THEN HotShape(l.df, FieldMapOf(r.ep), tie)
    ELSE IF IsKline(r.ep) THEN [ok |-> TRUE, body |-> Tail_(l.df.rows, l.count)]
    ELSE [ok |-> TRUE, body |-> l.df.rows]

\* jsonify(...) of the shaped payload, or the except clause's 500
Respond(r, l, tie) ==
    LET sh == Shaped(r, l, tie)
    IN  IF sh.ok THEN Response(200, sh.body) ELSE Response(500, ErrorBody)

\* the prologue with /health sent through the cache like a data endpoint
Begin_HealthLooksUp(r) ==
    IF IsQuote(r.ep) THEN
        LET symbols_param == ArgGet(r.args, "symbols", <<>>)
        IN  IF symbols_param = <<>>
            THEN [pc |-> "done", resp |-> Response(400, ErrorBody), loc |-> NoLoc]
            ELSE [pc |-> "get", resp |-> NoResp,
                  loc |-> [NoLoc EXCEPT !.key = CacheKey(r),
                                        !.symbols = ParseSymbols(symbols_param)]]
    ELSE IF IsKline(r.ep) THEN
        LET symbol == ArgGet(r.args, "symbol", <<>>)
            count == CountOf(r.args)
        IN  IF ~count.ok
            THEN [pc |-> "done", resp |-> Response(500, ErrorBody), loc |-> NoLoc]
            ELSE IF symbol = <<>>
            THEN [pc |-> "done", resp |-> Response(400, ErrorBody), loc |-> NoLoc]
            ELSE [pc |-> "get", resp |-> NoResp,
                  loc |-> [NoLoc EXCEPT !.key = CacheKey(r), !.count = count.val]]
    ELSE [pc |-> "get", resp |-> NoResp, loc |-> [NoLoc EXCEPT !.key = CacheKey(r)]]

\* The handler's code before any shared-state access: argument parsing and
\* the 400 / 500 early returns.  pc "get": the handler goes on to _get_cached.
Begin(r) ==
    IF r.ep = "health" THEN [pc |-> "done", resp |-> Response(200, OkBody), loc |-> NoLoc]
    ELSE IF IsQuote(r.ep) THEN
        LET symbols_param == ArgGet(r.args, "symbols", <<>>)
        IN  IF symbols_param = <<>>
            THEN [pc |-> "done", resp |-> Response(400, ErrorBody), loc |-> NoLoc]
            ELSE [pc |-> "get", resp |-> NoResp,
                  loc |-> [NoLoc EXCEPT !.key = CacheKey(r),
                                        !.symbols = ParseSymbols(symbols_param)]]
    ELSE IF IsKline(r.ep) THEN
        LET symbol == ArgGet(r.args, "symbol", <<>>)
            count == CountOf(r.args)
        IN  IF ~count.ok
            THEN [pc |-> "done", resp |-> Response(500, ErrorBody), loc |-> NoLoc]
            ELSE IF symbol = <<>>
            THEN [pc |-> "done", resp |-> Response(400, ErrorBody), loc |-> NoLoc]
            ELSE [pc |-> "get", resp |-> NoResp,
                  loc |-> [NoLoc EXCEPT !.key = CacheKey(r), !.count = count.val]]
    ELSE [pc |-> "get", resp |-> NoResp, loc |-> [NoLoc EXCEPT !.key = CacheKey(r)]]

\* the request's start with a lookup that, on a hit, stamps the entry with
\* the time of the lookup (a hit that refreshes the entry)
Start_Refresh(t, r, tie) ==
    /\ pc[t] \in {"idle", "done"}
    /\ nreq < MaxReq
    /\ nreq' = nreq + 1
    /\ req' = [req EXCEPT ![t] = r]
    /\ LET b == Begin(r)
           cached == GetCached(cache, b.loc.key, now)
           hit == cached # NoneVal
           l == [b.loc EXCEPT !.df = cached]
       IN  IF b.pc = "done"
           THEN /\ pc' = [pc EXCEPT ![t] = "done"]
                /\ resp' = [resp EXCEPT ![t] = b.resp]
                /\ loc' = [loc EXCEPT ![t] = b.loc]
                /\ obs' = [obs EXCEPT ![t] = NoObs]
                /\ cache' = cache
           ELSE /\ obs' = [obs EXCEPT ![t] =
                             [NoObs EXCEPT !.gets = 1, !.lkT = now,
                                           !.lkLen = Len(writes), !.hit = hit,
                                           !.got = cached]]
                /\ loc' = [loc EXCEPT ![t] = l]
                /\ pc' = [pc EXCEPT ![t] = IF hit THEN "done" ELSE "fetch"]
                /\ resp' = [resp EXCEPT ![t] = IF hit THEN Respond(r, l, tie) ELSE NoResp]
                /\ cache' = IF hit THEN [cache EXCEPT ![b.loc.key].ts = now] ELSE cache
    /\ UNCHANGED <<now, writes>>

\* A request arrives on a free thread and runs up to and including its cache
\* lookup: early return, or cached = _get_cached(key); a hit is shaped and
\* answered at once, a miss goes on to the upstream call.
Start(t, r, tie) ==
    /\ pc[t] \in {"idle", "done"}
    /\ nreq < MaxReq
    /\ nreq' = nreq + 1
    /\ req' = [req EXCEPT ![t] = r]
    /\ LET b == Begin(r)
           cached == GetCached(cache, b.loc.key, now)
           hit == cached # NoneVal
           l == [b.loc EXCEPT !.df = cached]
       IN  IF b.pc = "done"
           THEN /\ pc' = [pc EXCEPT ![t] = "done"]
                /\ resp' = [resp EXCEPT ![t] = b.resp]
                /\ loc' = [loc EXCEPT ![t] = b.loc]
                /\ obs' = [obs EXCEPT ![t] = NoObs]
           ELSE /\ obs' = [obs EXCEPT ![t] =
                             [NoObs EXCEPT !.gets = 1, !.lkT = now,
                                           !.lkLen = Len(writes), !.hit = hit,
                                           !.got = cached]]
                /\ loc' = [loc EXCEPT ![t] = l]
                /\ pc' = [pc EXCEPT ![t] = IF hit THEN "done" ELSE "fetch"]
                /\ resp' = [resp EXCEPT ![t] = IF hit THEN Respond(r, l, tie) ELSE NoResp]
    /\ UNCHANGED <<cache, now, writes>>

\* the upstream call, made a second time when the first one raises
Upstream_Retry(t, o) ==
    /\ pc[t] = "fetch"
    /\ obs' = [obs EXCEPT ![t].calls = @ + 1, ![t].callT = now, ![t].src = o.df]
    /\ IF o.ok
       THEN /\ loc' = [loc EXCEPT ![t].df = o.df]
            /\ pc' = [pc EXCEPT ![t] = "store"]
            /\ resp' = resp
       ELSE /\ loc' = loc
            /\ pc' = [pc EXCEPT ![t] = IF obs[t].calls = 0 THEN "fetch" ELSE "done"]
            /\ resp' = [resp EXCEPT ![t] =
                          IF obs[t].calls = 0 THEN NoResp ELSE Response(500, ErrorBody)]
    /\ UNCHANGED <<cache, now, req, writes, nreq>>

\* the upstream call (ak.stock_*): it raises, or returns a table
Upstream(t, o) ==
    /\ pc[t] = "fetch"
    /\ obs' = [obs EXCEPT ![t].calls = @ + 1, ![t].callT = now, ![t].src = o.df]
    /\ IF o.ok
       THEN /\ loc' = [loc EXCEPT ![t].df = o.df]
            /\ pc' = [pc EXCEPT ![t] = "store"]
            /\ resp' = resp
       ELSE /\ loc' = loc
            /\ pc' = [pc EXCEPT ![t] = "done"]
            /\ resp' = [resp EXCEPT ![t] = Response(500, ErrorBody)]
    /\ UNCHANGED <<cache, now, req, writes, nreq>>

\* a miss that stores the snapshot after sorting it (the sort done in place)
ToStore_Sorted(ep, df) ==
    IF IsSpot(ep) THEN [ok |-> TRUE,
                        data |-> DataFrame(df.cols, SortValuesDesc(df.rows, "keep"))]
    ELSE IF IsKline(ep) THEN KlineTransform(df)
    ELSE NewsTransform(df)

\* what a miss stores: the raw table (spot), or the transformed records
ToStore(ep, df) ==
    IF IsSpot(ep) THEN [ok |-> TRUE, data |-> df]
    ELSE IF IsKline(ep) THEN KlineTransform(df)
    ELSE NewsTransform(df)

\* the store step with a kline series cut to the request's count before it
\* is stored
Store_Trimmed(t, tie) ==
    /\ pc[t] = "store"
    /\ LET st == ToStore(req[t].ep, loc[t].df)
           data == IF st.ok /\ IsKline(req[t].ep)
                   THEN [st.data EXCEPT !.rows = Tail_(@, loc[t].count)]
                   ELSE st.data
           l == [loc[t] EXCEPT !.df = data]
       IN  IF st.ok
           THEN /\ cache' = SetCache(cache, loc[t].key, data, now)
                /\ writes' = Append(writes, [key |-> loc[t].key, ts |-> now,
                                             data |-> data])
                /\ obs' = [obs EXCEPT ![t].sets = @ + 1, ![t].wr = Len(writes) + 1]
                /\ loc' = [loc EXCEPT ![t] = l]
                /\ resp' = [resp EXCEPT ![t] = Respond(req[t], l, tie)]
           ELSE /\ resp' = [resp EXCEPT ![t] = Response(500, ErrorBody)]
                /\ UNCHANGED <<cache, writes, obs, loc>>
    /\ pc' = [pc EXCEPT ![t] = "done"]
    /\ UNCHANGED <<now, req, nreq>>

\* From the upstream call's return to the response: transform, then
\* _set_cache(key, ...), then shape and answer; an exception on the way is
\* answered 500.
Store(t, tie) ==
    /\ pc[t] = "store"
    /\ LET st == ToStore(req[t].ep, loc[t].df)
           l == [loc[t] EXCEPT !.df = st.data]
       IN  IF st.ok
           THEN /\ cache' = SetCache(cache, loc[t].key, st.data, now)
                /\ writes' = Append(writes, [key |-> loc[t].key, ts |-> now,
                                             data |-> st.data])
                /\ obs' = [obs EXCEPT ![t].sets = @ + 1, ![t].wr = Len(writes) + 1]
                /\ loc' = [loc EXCEPT ![t] = l]
                /\ resp' = [resp EXCEPT ![t] = Respond(req[t], l, tie)]
           ELSE /\ resp' = [resp EXCEPT ![t] = Response(500, ErrorBody)]
                /\ UNCHANGED <<cache, writes, obs, loc>>
    /\ pc' = [pc EXCEPT ![t] = "done"]
    /\ UNCHANGED <<now, req, nreq>>

\* time passes
Tick(d) ==
    /\ now + d <= MaxTime
    /\ now' = now + d
    /\ UNCHANGED <<cache, pc, req, loc, resp, obs, writes, nreq>>

TickSteps == {CACHE_TTL - 1, CACHE_TTL}

\* pandas' sort leaves the order of equal keys open; only hot sorts
Ties(ep) == IF IsHot(ep) THEN {"keep", "flip"} ELSE {"keep"}

Arg(name, value) == name :> value

\* ------------------------------------------------- concurrent request threads
\* /api/a-shares/hot on NumThreads threads, interleaved at the shared-state
\* accesses; the upstream raises, returns the market table of the moment, or
\* returns a table without the percent-change column.
HotReqs == {Request("a_hot", NoArgs)}

HotOutcomes ==
    {Raised, Returned(Snapshot(2, VariantAt(now))), Returned(SnapshotNoChg(1, 1))}

Next ==
    \/ \E t \in Threads, r \in HotReqs : \E tie \in Ties(r.ep) : Start(t, r, tie)
    \/ \E t \in Threads : \E o \in HotOutcomes : Upstream(t, o)
    \/ \E t \in Threads : \E tie \in Ties(req[t].ep) : Store(t, tie)
    \/ \E d \in TickSteps : Tick(d)

Spec == Init /\ [][Next]_vars

\* /api/a-shares/kline for one symbol with two counts on NumThreads threads
KlineConcReqs ==
    {Request("a_kline", Arg("symbol", <<"6">>) @@ Arg("count", <<"1">>)),
     Request("a_kline", Arg("symbol", <<"6">>) @@ Arg("count", <<"2">>))}

KlineConcOutcomes ==
    {Raised, Returned(History(MaxSeries, VariantAt(now))), Returned(EmptyFrame)}

NextKlineConc ==
    \/ \E t \in Threads, r \in KlineConcReqs : Start(t, r, "keep")
    \/ \E t \in Threads : \E o \in KlineConcOutcomes : Upstream(t, o)
    \/ \E t \in Threads : Store(t, "keep")
    \/ \E d \in TickSteps : Tick(d)

SpecKlineConc == Init /\ [][NextKlineConc]_vars

\* /api/a-shares/quote and /api/a-shares/hot on NumThreads threads: the two
\* users of the a_spot snapshot
SpotReqs ==
    {Request("a_hot", NoArgs), Request("a_quote", Arg("symbols", <<"7", ",", "6">>))}

\* (no two rows of this table have the same percent change: the sort has no
\* ties to break)
SpotOutcomes == {Raised, Returned(Snapshot(Len(Codes), VariantAt(now)))}

NextSpot ==
    \/ \E t \in Threads, r \in SpotReqs : Start(t, r, "keep")
    \/ \E t \in Threads : \E o \in SpotOutcomes : Upstream(t, o)
    \/ \E t \in Threads : Store(t, "keep")
    \/ \E d \in TickSteps : Tick(d)

SpecSpot == Init /\ [][NextSpot]_vars

\* ------------------------------------------------------ one request at a time
\* Requests handled one after another (on thread 1), with wider inputs.
SeqStart(r) == \E tie \in Ties(r.ep) : Start(1, r, tie)
SeqStore == \E tie \in Ties(req[1].ep) : Store(1, tie)

\* kline requests of both markets, news and health: several keys, several
\* stored values
CacheReqs ==
    {Request("a_kline", Arg("symbol", <<"6">>)),
     Request("hk_kline", Arg("symbol", <<"6">>) @@ Arg("period", <<"w">>)),
     Request("news", NoArgs), Request("health", NoArgs)}

CacheOutcomes(ep) ==
    {Raised} \cup
    (IF IsKline(ep)
     THEN {Returned(History(n, VariantAt(now))) : n \in {1, MaxSeries}}
     ELSE {Returned(News(n, VariantAt(now))) : n \in {0, 2, NewsN + 1}})

NextCache ==
    \/ \E r \in CacheReqs : SeqStart(r)
    \/ \E o \in CacheOutcomes(req[1].ep) : Upstream(1, o)
    \/ SeqStore
    \/ \E d \in TickSteps : Tick(d)

SpecCache == Init /\ [][NextCache]_vars

\* kline requests with missing, empty and odd arguments
KlineCounts == {<<>>, <<"x">>, <<"0">>, <<"-", "1">>, <<"1">>, <<"3">>, <<"5">>}

KlineReqs ==
    \* no arguments at all; an empty symbol with a period
    {Request(ep, NoArgs) : ep \in {"a_kline", "hk_kline"}}
    \cup {Request("hk_kline", Arg("symbol", <<>>) @@ Arg("period", <<"w">>))}
    \* a count, with and without a symbol
    \cup {Request("a_kline", Arg("count", c)) : c \in KlineCounts}
    \cup {Request("a_kline", Arg("symbol", <<"6">>) @@ Arg("count", c)) : c \in KlineCounts}
    \* symbol and period, both markets
    \cup {Request(ep, Arg("symbol", <<"6", "_", "d">>) @@ Arg("period", <<"w">>)) :
            ep \in {"a_kline", "hk_kline"}}
    \cup {Request(ep, Arg("symbol", <<"6">>) @@ Arg("period", <<"d", "_", "w">>)) :
            ep \in {"a_kline", "hk_kline"}}

KlineOutcomes ==
    {Raised, Returned(EmptyFrame)}
    \cup {Returned(History(n, VariantAt(now))) : n \in {1, MaxSeries}}

NextKline ==
    \/ \E r \in KlineReqs : SeqStart(r)
    \/ \E o \in KlineOutcomes : Upstream(1, o)
    \/ SeqStore
    \/ \E d \in TickSteps : Tick(d)

SpecKline == Init /\ [][NextKline]_vars

\* quote requests of both markets
QuoteParams ==
    {<<>>, <<",">>, <<" ">>, <<"6">>, <<"9">>, <<"6", ",", " ", "7">>,
     <<"7", ",", "6">>, <<"6", ",", "6">>}

QuoteReqs ==
    {Request(ep, NoArgs) : ep \in {"a_quote", "hk_quote"}}
    \cup {Request(ep, Arg("symbols", sp)) : ep \in {"a_quote", "hk_quote"}, sp \in QuoteParams}

QuoteOutcomes ==
    {Raised, Returned(SnapshotNoChg(1, 1))}
    \cup {Returned(Snapshot(n, VariantAt(now))) : n \in {0, Len(Codes), Len(Codes) + 1}}

NextQuote ==
    \/ \E r \in QuoteReqs : SeqStart(r)
    \/ \E o \in QuoteOutcomes : Upstream(1, o)
    \/ SeqStore
    \/ \E d \in TickSteps : Tick(d)

SpecQuote == Init /\ [][NextQuote]_vars

\* hot requests of both markets on snapshots shorter and longer than the list
HotSeqReqs == {Request("a_hot", NoArgs), Request("hk_hot", NoArgs)}

HotSeqOutcomes ==
    {Raised}
    \cup {Returned(Snapshot(n, VariantAt(now))) : n \in {0, 3, HotN, HotN + 2, HotN + 7}}

NextHotSeq ==
    \/ \E r \in HotSeqReqs : SeqStart(r)
    \/ \E o \in HotSeqOutcomes : Upstream(1, o)
    \/ SeqStore
    \/ \E d \in TickSteps : Tick(d)

SpecHotSeq == Init /\ [][NextHotSeq]_vars

\* ---------------------------------------------------------------- C1
\* the last _set_cache of key k among the first n writes (0: none)
LastWrite(k, n) ==
    IF \E i \in 1..n : writes[i].key = k
    THEN CHOOSE i \in 1..n :
            writes[i].key = k /\ \A j \in (i + 1)..n : writes[j].key # k
    ELSE 0

\* C1: a _get_cached(key) returns exactly the value of the last
\* _set_cache(key, value) before it while less than 60 seconds have passed
\* since that set, and None once 60 seconds or more have passed.
C1_GetAfterSet ==
    \A t \in Threads :
        obs[t].gets > 0 =>
            LET w == LastWrite(loc[t].key, obs[t].lkLen)
            IN  w > 0 =>
                  IF obs[t].lkT - writes[w].ts < CACHE_TTL
                  THEN obs[t].got = writes[w].data
                  ELSE obs[t].got = NoneVal

\* a lookup 59 seconds after the set returned the value, non-empty
C1_Witness ==
    \E t \in Threads :
        /\ obs[t].gets > 0
        /\ LET w == LastWrite(loc[t].key, obs[t].lkLen)
           IN  /\ w > 0
               /\ obs[t].lkT - writes[w].ts = CACHE_TTL - 1
               /\ obs[t].got = writes[w].data
               /\ obs[t].got.rows # <<>>

\* ---------------------------------------------------------------- C2
Done(t) == pc[t] = "done"

\* C2 as stated: hot requests handled within one 60-second window, in any
\* interleaving, invoke the upstream snapshot fetch at most once in all
\* (here: even two requests that were both answered 200).
C2_AtMostOneFetch ==
    \A t1, t2 \in Threads :
        (/\ t1 # t2
         /\ req[t1].ep = "a_hot" /\ req[t2].ep = "a_hot"
         /\ Done(t1) /\ Done(t2)
         /\ resp[t1].status = 200 /\ resp[t2].status = 200
         /\ now - obs[t1].lkT < CACHE_TTL /\ now - obs[t2].lkT < CACHE_TTL)
        => obs[t1].calls + obs[t2].calls <= 1

\* C2 amended: a hot request invokes the upstream fetch at most once, and
\* only when its own lookup found no snapshot stored less than 60 seconds
\* before; a request whose lookup comes after a store and within 60 seconds
\* of it makes no upstream call.
C2_FetchOnlyOnMiss ==
    \A t \in Threads :
        IsHot(req[t].ep) =>
            /\ obs[t].calls <= 1
            /\ obs[t].calls > 0 =>
                 LET w == LastWrite(loc[t].key, obs[t].lkLen)
                 IN  w > 0 => obs[t].lkT - writes[w].ts >= CACHE_TTL

\* two hot requests inside one window: one fetched and stored, the other
\* looked up after that store and was served without an upstream call
C2_Witness ==
    \E t1, t2 \in Threads :
        /\ t1 # t2 /\ req[t1].ep = "a_hot" /\ req[t2].ep = "a_hot"
        /\ Done(t1) /\ Done(t2)
        /\ obs[t1].calls = 1 /\ obs[t1].sets = 1
        /\ obs[t2].lkLen > 0 /\ obs[t2].hit /\ obs[t2].calls = 0
        /\ resp[t2].status = 200
        /\ now - obs[t1].lkT < CACHE_TTL

\* ---------------------------------------------------------------- C3
\* C3: a request that ends with a 500 response has not called _set_cache.
C3_NoSetOn500 ==
    \A t \in Threads : (Done(t) /\ resp[t].status = 500) => obs[t].sets = 0

\* ---------------------------------------------------------------- C8
IsSuffix(a, b) ==
    Len(a) <= Len(b) /\ a = SubSeq(b, Len(b) - Len(a) + 1, Len(b))

\* both requests were answered from the cache entry of the same _set_cache
SameWarmEntry(t1, t2) ==
    /\ IsKline(req[t1].ep) /\ IsKline(req[t2].ep)
    /\ Done(t1) /\ Done(t2)
    /\ resp[t1].status = 200 /\ resp[t2].status = 200
    /\ obs[t1].hit /\ obs[t2].hit
    /\ loc[t1].key = loc[t2].key
    /\ LastWrite(loc[t1].key, obs[t1].lkLen) = LastWrite(loc[t2].key, obs[t2].lkLen)

\* C8: two kline requests served from the same warm cache entry with counts
\* 1 <= n <= m: the response for n is a suffix of the response for m, and
\* neither request calls the upstream.
C8_SuffixOfLarger ==
    \A t1, t2 \in Threads :
        (SameWarmEntry(t1, t2) /\ 1 <= loc[t1].count /\ loc[t1].count <= loc[t2].count)
        => /\ IsSuffix(resp[t1].body, resp[t2].body)
           /\ obs[t1].calls = 0 /\ obs[t2].calls = 0

\* counts 1 and 2 against the same entry of a longer series
C8_Witness ==
    \E t1, t2 \in Threads :
        /\ SameWarmEntry(t1, t2)
        /\ loc[t1].count = 1 /\ loc[t2].count = 2
        /\ Len(resp[t1].body) = 1 /\ Len(resp[t2].body) = 2
        /\ Len(loc[t1].df.rows) > 2

\* ---------------------------------------------------------------- C4
SymbolArg(r) == ArgGet(r.args, "symbol", <<>>)
PeriodArg(r) == ArgGet(r.args, "period", DAILY)

\* C4: a kline request whose symbol is absent or empty is answered 400, with
\* no cache access and no upstream call, whatever period and count are.
C4_MissingSymbol400 ==
    \A t \in Threads :
        (Done(t) /\ IsKline(req[t].ep) /\ SymbolArg(req[t]) = <<>>)
        => /\ resp[t].status = 400
           /\ resp[t].body = ErrorBody
           /\ obs[t].gets = 0 /\ obs[t].sets = 0 /\ obs[t].calls = 0

\* ---------------------------------------------------------------- C5
Min(a, b) == IF a < b THEN a ELSE b
Max(a, b) == IF a < b THEN b ELSE a
\* the last k entries of S
LastK(S, k) == SubSeq(S, Len(S) - k + 1, Len(S))

\* C5: a successful kline response is the last min(count, len(S)) entries of
\* the stored series S, so it is never longer than count and is the whole of
\* S only when count >= len(S).
C5_LastCount ==
    \A t \in Threads :
        (Done(t) /\ IsKline(req[t].ep) /\ resp[t].status = 200)
        => LET S == loc[t].df.rows
               count == loc[t].count
           IN  /\ resp[t].body = LastK(S, Max(0, Min(count, Len(S))))
               /\ Len(resp[t].body) <= count
               /\ resp[t].body = S => count >= Len(S)

\* ---------------------------------------------------------------- C6
\* the query a kline request stands for
QueryShape(r) == <<r.ep, SymbolArg(r), PeriodArg(r)>>

\* C6: two kline requests with the same cache key have the same market,
\* symbol and period, and no kline key is one of the three shared keys.
C6_KeyInjective ==
    \A t \in Threads :
        (IsKline(req[t].ep) /\ obs[t].gets > 0)
        => /\ loc[t].key \notin {A_SPOT, HK_SPOT, NEWS_MARKET}
           /\ \A r \in KlineReqs :
                CacheKey(r) = loc[t].key => QueryShape(r) = QueryShape(req[t])

\* ---------------------------------------------------------------- C7
SymbolsArg(r) == ArgGet(r.args, "symbols", <<>>)

\* C7: a quote request reaches the snapshot lookup only with a non-empty
\* parsed symbol list; otherwise it is answered 400 and touches neither the
\* cache nor the upstream.
C7_EmptyListIs400 ==
    \A t \in Threads :
        (IsQuote(req[t].ep) /\ pc[t] # "idle")
        => IF ParseSymbols(SymbolsArg(req[t])) = <<>>
           THEN /\ Done(t) /\ resp[t].status = 400 /\ resp[t].body = ErrorBody
                /\ obs[t].gets = 0 /\ obs[t].sets = 0 /\ obs[t].calls = 0
           ELSE obs[t].gets > 0

\* ---------------------------------------------------------------- C9
\* how many of the first i snapshot rows carry a requested identifier
Matches(rows, wanted, i) == Cardinality({j \in 1..i : rows[j].code \in wanted})
UniqueCodes(rows) ==
    \A i, j \in 1..Len(rows) : rows[i].code = rows[j].code => i = j

\* the response is exactly the rows with a requested identifier, in snapshot order
IsFilterOf(body, rows, wanted) ==
    /\ Len(body) = Matches(rows, wanted, Len(rows))
    /\ \A i \in 1..Len(rows) :
          rows[i].code \in wanted =>
              body[Matches(rows, wanted, i)] =
                  [symbol |-> rows[i].code, changePercent |-> rows[i].chg]
    /\ \A k \in 1..Len(body) : body[k].symbol \in wanted

QuoteAnswered(t) ==
    /\ Done(t) /\ IsQuote(req[t].ep) /\ resp[t].status = 200
    /\ loc[t].symbols # <<>>

\* C9 as stated: the quote response is the snapshot rows with a requested
\* identifier, in snapshot order, and has at most as many records as there
\* are requested symbols, for every snapshot.
C9_FilterAtMostRequested ==
    \A t \in Threads :
        QuoteAnswered(t)
        => /\ IsFilterOf(resp[t].body, loc[t].df.rows, SeqToSet(loc[t].symbols))
           /\ Len(resp[t].body) <= Len(loc[t].symbols)

\* C9 amended: the same, the record count being at most the number of
\* requested symbols when no identifier occurs twice in the snapshot.
C9_FilterInSnapshotOrder ==
    \A t \in Threads :
        QuoteAnswered(t)
        => /\ IsFilterOf(resp[t].body, loc[t].df.rows, SeqToSet(loc[t].symbols))
           /\ UniqueCodes(loc[t].df.rows)
                => Len(resp[t].body) <= Len(loc[t].symbols)

\* two symbols requested in the opposite of snapshot order, both found among
\* rows that are not all requested
C9_Witness ==
    \E t \in Threads :
        /\ QuoteAnswered(t)
        /\ Len(loc[t].symbols) = 2 /\ Len(resp[t].body) = 2
        /\ Len(loc[t].df.rows) > 2 /\ UniqueCodes(loc[t].df.rows)
        /\ resp[t].body[1].symbol = loc[t].symbols[2]
        /\ resp[t].body[2].symbol = loc[t].symbols[1]

\* ---------------------------------------------------------------- C10
AsRecord(row) == [symbol |-> row.code, changePercent |-> row.chg]
Count(q, x) == Cardinality({i \in 1..Len(q) : q[i] = x})
Snap(t) == [i \in 1..Len(loc[t].df.rows) |-> AsRecord(loc[t].df.rows[i])]

HotAnswered(t) == Done(t) /\ IsHot(req[t].ep) /\ resp[t].status = 200

\* C10: the hot list has min(20, snapshot rows) records taken from the
\* snapshot, no record has a greater changePercent than a record before it,
\* and no row left out has a greater changePercent than a row returned
\* (a NaN is greater than nothing).
C10_TopTwenty ==
    \A t \in Threads :
        HotAnswered(t)
        => LET body == resp[t].body
               snap == Snap(t)
           IN  /\ Len(body) = Min(HotN, Len(snap))
               /\ \A x \in SeqToSet(body) : Count(body, x) <= Count(snap, x)
               /\ \A i, j \in 1..Len(body) :
                     i < j => ~Gt(body[j].changePercent, body[i].changePercent)
               /\ \A x \in SeqToSet(snap) :
                     Count(body, x) < Count(snap, x)
                     => \A k \in 1..Len(body) :
                           ~Gt(x.changePercent, body[k].changePercent)

\* a snapshot of more than 20 rows, out of order, cut to 20
C10_Witness ==
    \E t \in Threads :
        /\ HotAnswered(t)
        /\ Len(loc[t].df.rows) > HotN
        /\ Len(resp[t].body) = HotN
        /\ ~IsNaN(resp[t].body[HotN].changePercent)
        /\ Gt(resp[t].body[1].changePercent, resp[t].body[HotN].changePercent)
        /\ resp[t].body[1] # Snap(t)[1]

\* ---------------------------------------------------------------- C11
\* C11: whatever the cache holds (nothing, fresh or stale entries) and
\* whatever the upstream did before, a /health request is answered 200
\* {"status": "ok"} and has made no _get_cached, no _set_cache and no
\* upstream call.
C11_HealthOk ==
    \A t \in Threads :
        (req[t].ep = "health" /\ pc[t] # "idle")
        => /\ Done(t)
           /\ resp[t] = Response(200, <<"status:ok">>)
           /\ obs[t].gets = 0 /\ obs[t].sets = 0 /\ obs[t].calls = 0
           /\ obs[t].wr = 0

\* /health answered while the cache holds a stale entry and a fresh one
C11_Witness ==
    \E t \in Threads :
        /\ req[t].ep = "health" /\ Done(t) /\ resp[t].status = 200
        /\ \E k \in DOMAIN cache : now - cache[k].ts >= CACHE_TTL
        /\ \E k \in DOMAIN cache : now - cache[k].ts < CACHE_TTL

\* ---------------------------------------------------------------- C12
\* C12: every value stored under "news_market" is a list of at most 30
\* items, the first 30 of the upstream result in upstream order; a news
\* request that hits the cache returns the stored list as it is and makes no
\* upstream call.
C12_NewsFirstThirty ==
    /\ \A i \in 1..Len(writes) :
          writes[i].key = NEWS_MARKET
          => writes[i].data.kind = "list" /\ Len(writes[i].data.rows) <= NewsN
    /\ \A t \in Threads :
          (req[t].ep = "news" /\ obs[t].sets > 0)
          => LET stored == writes[obs[t].wr]
                 up == obs[t].src.rows
             IN  /\ stored.key = NEWS_MARKET
                 /\ Len(stored.data.rows) = Min(NewsN, Len(up))
                 /\ \A i \in 1..Len(stored.data.rows) : stored.data.rows[i] = up[i]
    /\ \A t \in Threads :
          (req[t].ep = "news" /\ obs[t].hit)
          => /\ Done(t) /\ obs[t].calls = 0
             /\ resp[t] = Response(200,
                    writes[LastWrite(NEWS_MARKET, obs[t].lkLen)].data.rows)

\* a news hit that returns a stored list of exactly 30 items
C12_Witness ==
    \E t \in Threads :
        /\ req[t].ep = "news" /\ obs[t].hit /\ Done(t)
        /\ Len(resp[t].body) = NewsN
        /\ obs[t].lkT > writes[LastWrite(NEWS_MARKET, obs[t].lkLen)].ts

\* ---------------------------------------------------------------- C13
\* the stored entry of a write
Entry(w) == [ts |-> w.ts, data |-> w.data]

\* C13: two concurrent requests can both miss on one key, both call the
\* upstream and both call _set_cache (the witness); in every state, a key
\* that has been written has an entry, and the entry is the value and
\* timestamp of the last write of that key.
C13_LastWriteWins ==
    \A i \in 1..Len(writes) :
        LET k == writes[i].key
        IN  /\ k \in DOMAIN cache
            /\ cache[k] = Entry(writes[LastWrite(k, Len(writes))])

\* both requests looked up before either wrote, both fetched, both wrote;
\* the two writes differ and the entry is the later one
C13_Witness ==
    \E t1, t2 \in Threads :
        /\ t1 # t2 /\ Done(t1) /\ Done(t2)
        /\ loc[t1].key = loc[t2].key
        /\ ~obs[t1].hit /\ ~obs[t2].hit
        /\ obs[t1].calls = 1 /\ obs[t2].calls = 1
        /\ obs[t1].sets = 1 /\ obs[t2].sets = 1
        /\ obs[t1].lkLen < obs[t1].wr /\ obs[t2].lkLen < obs[t1].wr
        /\ obs[t1].wr < obs[t2].wr
        /\ writes[obs[t1].wr].data # writes[obs[t2].wr].data
        /\ writes[obs[t1].wr].ts # writes[obs[t2].wr].ts
        /\ cache[loc[t1].key] = Entry(writes[obs[t2].wr])

\* ---------------------------------------------------------------- C14
\* the write of t2 replaced the value written by t1
Replaced(t1, t2) ==
    /\ obs[t1].sets > 0 /\ obs[t2].sets > 0
    /\ obs[t1].wr < obs[t2].wr
    /\ writes[obs[t1].wr].key = writes[obs[t2].wr].key
    /\ \A i \in (obs[t1].wr + 1)..(obs[t2].wr - 1) :
          writes[i].key # writes[obs[t1].wr].key

\* C14: a _set_cache never replaces the stored value with data from an
\* upstream call that started earlier than the upstream call that produced
\* the value being replaced.
C14_NoOlderOverwrite ==
    \A t1, t2 \in Threads :
        Replaced(t1, t2) => obs[t2].callT >= obs[t1].callT

\* ---------------------------------------------------------------- C15
\* the entry of the request's key was stale when the request looked it up
StaleLookup(t) ==
    /\ obs[t].gets > 0
    /\ LET w == LastWrite(loc[t].key, obs[t].lkLen)
       IN  w > 0 /\ obs[t].lkT - writes[w].ts >= CACHE_TTL

\* the request's upstream call returned and its result was transformed
Fetched(t) ==
    /\ obs[t].calls = 1 /\ obs[t].src.kind = "df"
    /\ ToStore(req[t].ep, obs[t].src).ok

\* C15: a request that finds an entry of age >= 60 is not served from it
\* and calls the upstream, as for a missing entry; when fetch and transform
\* succeed the entry becomes the new value with the time of the store; when
\* they fail the request is answered 500 and the stale entry is still there
\* unchanged (requests handled one at a time).
C15_StaleIsMissing ==
    \A t \in Threads :
        StaleLookup(t)
        => LET k == loc[t].key
               old == Entry(writes[LastWrite(k, obs[t].lkLen)])
           IN  /\ ~obs[t].hit /\ obs[t].got = NoneVal
               /\ pc[t] \in {"fetch", "store", "done"}
               /\ pc[t] \in {"store", "done"} => obs[t].calls = 1
               /\ (Done(t) /\ Fetched(t))
                    => /\ obs[t].sets = 1
                       /\ cache[k] = Entry(writes[obs[t].wr])
                       /\ cache[k].ts >= obs[t].lkT
                       /\ cache[k].data = ToStore(req[t].ep, obs[t].src).data
               /\ (Done(t) /\ ~Fetched(t))
                    => /\ obs[t].sets = 0
                       /\ cache[k] = old
                       /\ resp[t] = Response(500, ErrorBody)

\* a stale entry, a request for its key whose upstream call failed: the
\* entry is as it was
C15_Witness ==
    \E t \in Threads :
        /\ StaleLookup(t) /\ Done(t) /\ obs[t].calls = 1 /\ ~Fetched(t)
        /\ cache[loc[t].key].ts = 0
        /\ cache[loc[t].key].data.rows # <<>>
        /\ resp[t].status = 500

\* ---------------------------------------------------------------- C16
\* C16: a request makes at most one upstream call, and only after its own
\* cache lookup missed (a request whose lookup hit makes none); when the
\* call raises, the request ends 500 with no further call and no store.
C16_OneCallNoRetry ==
    \A t \in Threads :
        /\ obs[t].calls <= 1
        /\ obs[t].calls > 0 => (obs[t].gets = 1 /\ ~obs[t].hit /\ obs[t].got = NoneVal)
        /\ obs[t].hit => (obs[t].calls = 0 /\ Done(t))
        /\ (obs[t].calls > 0 /\ obs[t].src = NoneVal)
             => /\ Done(t) /\ resp[t] = Response(500, ErrorBody)
                /\ obs[t].sets = 0

\* the last request's upstream call raised while its key had a (stale) entry
C16_Witness ==
    \E t \in Threads :
        /\ Done(t) /\ obs[t].calls = 1 /\ obs[t].src = NoneVal
        /\ resp[t].status = 500
        /\ loc[t].key \in DOMAIN cache
        /\ nreq = MaxReq

\* ---------------------------------------------------------------- C17
\* answered 200 from a cache hit
HitAnswered(t) == Done(t) /\ obs[t].hit /\ resp[t].status = 200

\* C17: what is stored under "a_spot" / "hk_spot" is the upstream table as
\* the fetch that wrote it returned it; quote and hot requests (their
\* filtering, sorting, renaming, column selection) leave the stored snapshot
\* as it is, so every hit sees the rows of the last write, in that order.
C17_RawSnapshot ==
    /\ \A t \in Threads :
          (IsSpot(req[t].ep) /\ obs[t].sets > 0)
          => /\ writes[obs[t].wr].key = SpotKey(req[t].ep)
             /\ writes[obs[t].wr].data = obs[t].src
    /\ \A k \in {A_SPOT, HK_SPOT} \cap DOMAIN cache :
          cache[k] = Entry(writes[LastWrite(k, Len(writes))])
    /\ \A t \in Threads :
          (IsSpot(req[t].ep) /\ obs[t].hit)
          => obs[t].got = writes[LastWrite(loc[t].key, obs[t].lkLen)].data

\* a hot request and a quote request were both answered from the entry of
\* one write, the hot one first; the stored rows are still in upstream
\* order, which is neither the sorted order nor the filtered list
C17_Witness ==
    \E t1, t2 \in Threads :
        /\ IsHot(req[t1].ep) /\ IsQuote(req[t2].ep)
        /\ HitAnswered(t1) /\ HitAnswered(t2)
        /\ obs[t1].lkT < obs[t2].lkT
        /\ Len(writes) = 1
        /\ LET rows == cache[A_SPOT].data.rows
           IN  /\ rows = Snapshot(Len(Codes), VariantAt(writes[1].ts)).rows
               /\ rows # SortValuesDesc(rows, "keep")
               /\ Len(resp[t2].body) < Len(rows)
               /\ resp[t1].body[1] # AsRecord(rows[1])

\* ---------------------------------------------------------------- C18
\* answered 200 on the miss path, after storing
MissAnswered(t) == Done(t) /\ obs[t].sets > 0 /\ resp[t].status = 200

\* t2 was answered from an entry that holds the series t1 fetched and stored
SameSeries(t1, t2) ==
    /\ IsKline(req[t1].ep) /\ IsKline(req[t2].ep)
    /\ MissAnswered(t1) /\ HitAnswered(t2)
    /\ obs[t2].got = writes[obs[t1].wr].data

\* C18: what a kline miss stores is the whole transformed series (one
\* record per upstream row, in upstream order), whatever the count of the
\* request; and a request answered on the miss path gets the same response
\* as a request with the same count answered from the cache for the same
\* series.
C18_MissEqualsHit ==
    /\ \A t \in Threads :
          (IsKline(req[t].ep) /\ obs[t].sets > 0)
          => LET stored == writes[obs[t].wr].data
                 up == obs[t].src.rows
             IN  /\ stored.kind = "list"
                 /\ Len(stored.rows) = Len(up)
                 /\ \A i \in 1..Len(up) : stored.rows[i].date = DateStr(up[i].date)
    /\ \A t1, t2 \in Threads :
          (SameSeries(t1, t2) /\ loc[t1].count = loc[t2].count)
          => resp[t1] = resp[t2]

\* a miss and a later hit with the same count, smaller than the series
C18_Witness ==
    \E t1, t2 \in Threads :
        /\ SameSeries(t1, t2)
        /\ loc[t1].count = loc[t2].count
        /\ obs[t2].lkLen = obs[t1].wr
        /\ Len(resp[t2].body) = loc[t2].count
        /\ Len(resp[t2].body) < Len(writes[obs[t1].wr].data.rows)

\* ---------------------------------------------------------------- C19
\* this step is a _set_cache(k, ...): the write log grows by a write of k
IsSetOf(k) ==
    /\ Len(writes') = Len(writes) + 1
    /\ writes'[Len(writes')].key = k

\* C19: no step removes a key from _cache, and an entry appears or changes
\* only in a step that is a _set_cache of that key, which leaves the entry
\* with the time and the value of that call, both.
C19_KeysNeverShrink ==
    [][/\ DOMAIN cache \subseteq DOMAIN cache'
       /\ \A k \in DOMAIN cache' :
             (k \notin DOMAIN cache \/ cache'[k] # cache[k])
             => /\ IsSetOf(k)
                /\ cache'[k] = Entry(writes'[Len(writes')])
                /\ cache'[k].ts = now
       /\ \A k \in DOMAIN cache :
             IsSetOf(k) => cache'[k] = Entry(writes'[Len(writes')])]_vars

\* several keys in the store, one of them stale and one overwritten with a
\* new value and a new time
C19_Witness ==
    /\ Cardinality(DOMAIN cache) >= 2
    /\ \E k \in DOMAIN cache : now - cache[k].ts >= CACHE_TTL
    /\ \E i, j \in 1..Len(writes) :
          /\ i < j /\ writes[i].key = writes[j].key
          /\ writes[i].ts # writes[j].ts /\ writes[i].data # writes[j].data
          /\ cache[writes[j].key] = Entry(writes[j])

\* ---------------------------------------------------------------- C20
\* this step is a request's lookup that hit
IsHitStep ==
    /\ nreq' = nreq + 1
    /\ \E t \in Threads :
          /\ obs'[t].hit /\ obs'[t].lkT = now /\ obs'[t].lkLen = Len(writes)
          /\ pc[t] \in {"idle", "done"} /\ pc'[t] = "done"

\* C20: a lookup that hits leaves _cache as it was, timestamps included,
\* and writes to no key; the entry it serves was set strictly less than 60
\* seconds before, however many hits came in between.
C20_HitDoesNotRefresh ==
    [][IsHitStep
       => /\ cache' = cache
          /\ writes' = writes
          /\ \A t \in Threads :
                (obs'[t].hit /\ obs'[t].lkT = now)
                => LET w == LastWrite(loc'[t].key, Len(writes))
                   IN  /\ w > 0
                       /\ cache'[loc'[t].key] = Entry(writes[w])
                       /\ now - writes[w].ts < CACHE_TTL]_vars

\* two hits on one entry, at the time of the set and 59 seconds later: the
\* entry still carries the time of the set
C20_Witness ==
    \E t1, t2 \in Threads :
        /\ HitAnswered(t1) /\ HitAnswered(t2)
        /\ loc[t1].key = loc[t2].key
        /\ Len(writes) = 1
        /\ obs[t1].lkT = writes[1].ts
        /\ obs[t2].lkT = writes[1].ts + CACHE_TTL - 1
        /\ cache[loc[t1].key] = Entry(writes[1])

====
